---- MODULE Spec2Model ----
(***************************************************************************)
(* Model of the viv loader utilities (packages/loaders/src/utils.ts), the  *)
(* avivator helpers (avivator/src/utils.js) and the bioformats-zarr `load` *)
(* function.  JavaScript arrays are 0-based; they are kept here as TLA+    *)
(* sequences and every index is shifted by one at the point of access.     *)
(***************************************************************************)
EXTENDS Integers, Sequences, FiniteSets, TLC

\* ------------------------------------------------------------------ bounds
MaxLen == 5
MaxVal == 2

MaxCalls == 2

VARIABLES
    \* getChannelStats
    arr,        \* the typed array handed to getChannelStats (reordered in place)
    buf0,       \* the samples of arr as they were when it was handed over
    stats,      \* what the last getChannelStats call returned
    statsCall,  \* how the last call ended: "none", "returned" or "threw"
    calls,      \* number of getChannelStats calls made on arr
    firstStats, \* what the first getChannelStats call on arr returned
    \* getSingleSelectionStats3D
    loader3d,   \* the loader: number of levels, z extent in the coarsest level's shape
    pc3d,       \* where the async function is: idle, await0, awaitMid, awaitTop, done
    reqs,       \* the getRaster requests issued so far, in order
    planeStats, \* the per-plane statistics computed so far, in order
    result3d,   \* how the call settled
    \* getDims
    labels,     \* the label list passed to getDims
    dims,       \* what getDims did: not called, returned a lookup, or threw
    lookups,    \* the calls made of the returned lookup, in order, each with how it ended
    \* isInterleaved
    shape,      \* the shape passed to isInterleaved
    interleaved,\* the answers of the two implementations
    \* guessTiffTileSize
    tileWidth, tileHeight, \* image.getTileWidth(), image.getTileHeight()
    tileSize,   \* the value guessTiffTileSize returned
    \* load
    data,       \* the arrays loadMultiscales yields, finest first
    loaded,     \* how load settled
    \* getSingleSelectionStats
    singleLoader,   \* the loader and the selection passed in
    singlePc,       \* where the async function is: idle, await, done
    singleReqs,     \* the getRaster requests issued so far, in order
    selectionStats, \* what getChannelStats returned for the raster
    singleResult,   \* how the call settled
    \* createLoader
    urlOrFile,      \* the image source passed in
    createPc,       \* the await createLoader is suspended at, or idle / done
    isOffsets404,   \* whether the offsets fetch answered 404
    source,         \* what loadOmeTiff / loadBioformatsZarr resolved with
    handlerCalls,   \* the calls made of the two handlers, in order
    failedStep,     \* the step that failed and what it threw, "none" if none did
    createResult,   \* how the call settled
    \* channelsReducer
    channels,       \* the reducer state: the six per-channel arrays
    lastAction      \* the last action dispatched and the channel count before it

statsVars == <<arr, buf0, stats, statsCall, calls, firstStats>>
vars3d == <<loader3d, pc3d, reqs, planeStats, result3d>>
dimsVars == <<labels, dims, lookups>>
interleavedVars == <<shape, interleaved>>
tileVars == <<tileWidth, tileHeight, tileSize>>
loadVars == <<data, loaded>>
singleVars == <<singleLoader, singlePc, singleReqs, selectionStats, singleResult>>
createVars == <<urlOrFile, createPc, isOffsets404, source, handlerCalls,
                failedStep, createResult>>
channelVars == <<channels, lastAction>>
avivatorVars == <<singleVars, createVars, channelVars>>
loaderVars == <<statsVars, vars3d, dimsVars, interleavedVars, tileVars, loadVars>>

vars == <<loaderVars, avivatorVars>>

\* -------------------------------------------------------- JavaScript values
\* A JavaScript value: a number (num/den, den = 1 for an integer; "sqrt" is the
\* square root of num/den), or one of NaN, Infinity, -Infinity, undefined.
Num(v) == [kind |-> "number", num |-> v, den |-> 1]
NaN == [kind |-> "NaN", num |-> 0, den |-> 1]
Undefined == [kind |-> "undefined", num |-> 0, den |-> 1]
PosInfinity == [kind |-> "Infinity", num |-> 0, den |-> 1]
NegInfinity == [kind |-> "-Infinity", num |-> 0, den |-> 1]

\* total / arr.length : 0 / 0 is NaN.
Quotient(a, b) ==
    IF b = 0 THEN NaN ELSE [kind |-> "number", num |-> a, den |-> b]

\* (a / b) ** 0.5 : NaN ** 0.5 is NaN.
SqrtQuotient(a, b) ==
    IF b = 0 THEN NaN ELSE [kind |-> "sqrt", num |-> a, den |-> b]

\* x || 0 for a typed-array element x: undefined (index out of range) gives 0.
OrZero(a, i) == IF i >= 0 /\ i < Len(a) THEN Num(a[i + 1]) ELSE Num(0)

\* arr[i] as a result field: undefined when i is out of range.
Elem(a, i) == IF i >= 0 /\ i < Len(a) THEN Num(a[i + 1]) ELSE Undefined

\* ------------------------------------------------------------- quickselect
\* The imported selection routine (Floyd-Rivest), on an integer typed array.
InBounds(a, i) == i >= 0 /\ i < Len(a)

\* swap(arr, i, j).  A typed array ignores a write out of range and stores 0
\* for an undefined read.
swap(a, i, j) ==
    LET ai == IF InBounds(a, i) THEN a[i + 1] ELSE 0
        aj == IF InBounds(a, j) THEN a[j + 1] ELSE 0
    IN  [x \in 1..Len(a) |->
            IF x = j + 1 THEN ai
            ELSE IF x = i + 1 THEN aj
            ELSE a[x]]

\* defaultCompare(arr[i], t) < 0 and > 0: a comparison with undefined is false.
CompareLess(a, i, t) == InBounds(a, i) /\ a[i + 1] < t
CompareGreater(a, i, t) == InBounds(a, i) /\ a[i + 1] > t

RECURSIVE ScanUp(_, _, _)
\* while (compare(arr[i], t) < 0) i++;
ScanUp(a, i, t) == IF CompareLess(a, i, t) THEN ScanUp(a, i + 1, t) ELSE i

RECURSIVE ScanDown(_, _, _)
\* while (compare(arr[j], t) > 0) j--;
ScanDown(a, j, t) == IF CompareGreater(a, j, t) THEN ScanDown(a, j - 1, t) ELSE j

RECURSIVE PartitionLoop(_, _, _, _)
\* while (i < j) { swap(arr, i, j); i++; j--; scan up; scan down }
PartitionLoop(a, i, j, t) ==
    IF i < j
    THEN LET a1 == swap(a, i, j)
         IN  PartitionLoop(a1, ScanUp(a1, i + 1, t), ScanDown(a1, j - 1, t), t)
    ELSE [arr |-> a, j |-> j]

RECURSIVE quickselectStep(_, _, _, _)
\* while (right > left) { partition around t = arr[k]; narrow to k's side }
\* (the sampling branch for right - left > 600 is beyond every bound used here)
quickselectStep(a, k, left, right) ==
    IF right > left
    THEN LET t == a[k + 1]
             a1 == swap(a, left, k)
             a2 == IF CompareGreater(a1, right, t) THEN swap(a1, left, right) ELSE a1
             p == PartitionLoop(a2, left, right, t)
             atLeft == InBounds(p.arr, left) /\ p.arr[left + 1] = t
             j == IF atLeft THEN p.j ELSE p.j + 1
             a3 == IF atLeft THEN swap(p.arr, left, p.j) ELSE swap(p.arr, j, right)
             newLeft == IF j <= k THEN j + 1 ELSE left
             newRight == IF k <= j THEN j - 1 ELSE right
         IN  quickselectStep(a3, k, newLeft, newRight)
    ELSE a

\* quickselect(arr, k, left, right)
quickselect(a, k, left, right) == quickselectStep(a, k, left, right)

\* ---------------------------------------------------------- getChannelStats
RECURSIVE Total(_)
\* total += arr[len], over the whole array
Total(a) == IF a = <<>> THEN 0 ELSE Head(a) + Total(Tail(a))

RECURSIVE SumSquaredN2(_, _, _)
\* sumSquared += (arr[len] - mean) ** 2, kept exact: with mean = total / n,
\* (x - mean)^2 = (n*x - total)^2 / n^2, and this is the sum of the numerators.
SumSquaredN2(a, n, total) ==
    IF a = <<>> THEN 0
    ELSE (n * Head(a) - total) * (n * Head(a) - total)
         + SumSquaredN2(Tail(a), n, total)

\* The first loop: min starts at Infinity and max at -Infinity.
RangeMin(a) ==
    IF a = <<>> THEN PosInfinity
    ELSE Num(CHOOSE m \in {a[i] : i \in 1..Len(a)} :
                 \A i \in 1..Len(a) : m <= a[i])

RangeMax(a) ==
    IF a = <<>> THEN NegInfinity
    ELSE Num(CHOOSE m \in {a[i] : i \in 1..Len(a)} :
                 \A i \in 1..Len(a) : m >= a[i])

\* Math.floor(arr.length / 2)
MidOf(n) == n \div 2

\* Math.floor(arr.length / 4)
FirstQuartileLocation(n) == n \div 4

\* 3 * Math.floor(arr.length / 4)
ThirdQuartileLocation(n) == 3 * (n \div 4)

\* cutoffFilter keeping the zero samples (i >= 0).
cutoffFilterNonNegative(a) == SelectSeq(a, LAMBDA x : x >= 0)

\* arr.filter(i => i > 0)
cutoffFilter(a) == SelectSeq(a, LAMBDA x : x > 0)

\* Math.floor(cutoffArr.length * (1 - cutoffPercentile)), cutoffPercentile = 0.0005
TopCutoffLocation(m) == (m * 9995) \div 10000

\* Math.floor(cutoffArr.length * cutoffPercentile)
BottomCutoffLocation(m) == (m * 5) \div 10000

\* contrastLimits, from the array as the quartile selections leave it:
\* the two selections on the filtered copy, then the two reads with || 0.
cutoffSelectBottom(c1, top) ==
    quickselect(c1, BottomCutoffLocation(Len(c1)), 0, top)

cutoffSelect(c0) ==
    cutoffSelectBottom(quickselect(c0, TopCutoffLocation(Len(c0)), 0, Len(c0) - 1),
                       TopCutoffLocation(Len(c0)))

\* cutoffLimits with the two reads in the opposite order.
cutoffLimitsSwapped(c2) ==
    <<OrZero(c2, TopCutoffLocation(Len(c2))),
      OrZero(c2, BottomCutoffLocation(Len(c2)))>>

cutoffLimits(c2) ==
    <<OrZero(c2, BottomCutoffLocation(Len(c2))),
      OrZero(c2, TopCutoffLocation(Len(c2)))>>

contrastLimitsOf(s3) == cutoffLimits(cutoffSelect(cutoffFilter(s3)))

\* statsRecord with the filtered copy written back over the array.
statsRecordFiltered(a, s1, s2, s3) ==
    [ret |-> [mean |-> Quotient(Total(a), Len(a)),
              sd |-> SqrtQuotient(SumSquaredN2(a, Len(a), Total(a)),
                                  Len(a) * Len(a) * Len(a)),
              q1 |-> Elem(s2, FirstQuartileLocation(Len(a))),
              q3 |-> Elem(s3, ThirdQuartileLocation(Len(a))),
              median |-> Elem(s1, MidOf(Len(a))),
              domain |-> <<RangeMin(a), RangeMax(a)>>,
              contrastLimits |-> contrastLimitsOf(s3)],
     arr |-> cutoffFilter(s3)]

\* The returned record, and the array as the call leaves it.  a is the array
\* on entry, s1, s2 and s3 the array after the median, the first-quartile and
\* the third-quartile selection.
statsRecord(a, s1, s2, s3) ==
    [ret |-> [mean |-> Quotient(Total(a), Len(a)),
              sd |-> SqrtQuotient(SumSquaredN2(a, Len(a), Total(a)),
                                  Len(a) * Len(a) * Len(a)),
              q1 |-> Elem(s2, FirstQuartileLocation(Len(a))),
              q3 |-> Elem(s3, ThirdQuartileLocation(Len(a))),
              median |-> Elem(s1, MidOf(Len(a))),
              domain |-> <<RangeMin(a), RangeMax(a)>>,
              contrastLimits |-> contrastLimitsOf(s3)],
     arr |-> s3]

\* The arguments (k, left, right) of the two quartile selections on an array
\* of length n.
firstQuartileSelection(n) ==
    [k |-> FirstQuartileLocation(n), left |-> 0, right |-> MidOf(n)]

thirdQuartileSelection(n) ==
    [k |-> ThirdQuartileLocation(n), left |-> MidOf(n), right |-> n - 1]

\* quickselect(arr, thirdQuartileLocation, mid, arr.length - 1)
selectThirdQuartile(a, s1, s2) ==
    statsRecord(a, s1, s2,
        quickselect(s2, thirdQuartileSelection(Len(a)).k,
                    thirdQuartileSelection(Len(a)).left,
                    thirdQuartileSelection(Len(a)).right))

\* quickselect(arr, firstQuartileLocation, 0, mid)
selectFirstQuartile(a, s1) ==
    selectThirdQuartile(a, s1,
        quickselect(s1, firstQuartileSelection(Len(a)).k,
                    firstQuartileSelection(Len(a)).left,
                    firstQuartileSelection(Len(a)).right))

\* The whole function, from quickselect(arr, mid) on.
getChannelStats(a) ==
    selectFirstQuartile(a, quickselect(a, MidOf(Len(a)), 0, Len(a) - 1))

\* How a getChannelStats call ends: the function has no throwing path, so on
\* every typed array, the empty one included, it returns its record.
getChannelStatsOutcome(a) == "returned"

\* -------------------------------------------------- getSingleSelectionStats3D
\* Math.min / Math.max of a set of argument values: NaN as soon as one argument
\* is not a number (undefined converts to NaN).
IsNumeric(v) == v.kind \in {"number", "Infinity", "-Infinity"}

LeqJs(a, b) ==
    \/ a.kind = "-Infinity"
    \/ b.kind = "Infinity"
    \/ a.kind = "number" /\ b.kind = "number" /\ a.num * b.den <= b.num * a.den

MathMin(S) ==
    IF \E v \in S : ~IsNumeric(v) THEN NaN
    ELSE CHOOSE m \in S : \A v \in S : LeqJs(m, v)

MathMax(S) ==
    IF \E v \in S : ~IsNumeric(v) THEN NaN
    ELSE CHOOSE m \in S : \A v \in S : LeqJs(v, m)

\* shape[labels.indexOf('z')] >> (loader.length - 1)
SizeZ(ld) == ld.shapeZ \div (2 ^ (ld.levels - 1))

\* The z index of the first, second and third getRaster request.
PlaneZ(ld, i) ==
    CASE i = 1 -> 0
      [] i = 2 -> SizeZ(ld) \div 2
      [] i = 3 -> SizeZ(ld) - 1

NoResult3D ==
    [kind |-> "none", domain |-> <<Undefined, Undefined>>,
     slider |-> <<Undefined, Undefined>>, error |-> "none"]

Rejected3D(e) ==
    [kind |-> "rejected", domain |-> <<Undefined, Undefined>>,
     slider |-> <<Undefined, Undefined>>, error |-> e]

\* The return expression.  The domain is built first; the slider then reads
\* stats.autoSliders[0], and indexing a property the record does not have
\* throws a TypeError.
mergeStats3D(s0, sMid, sTop) ==
    IF \A s \in {s0, sMid, sTop} : "autoSliders" \in DOMAIN s
    THEN [kind |-> "returned",
          domain |-> <<MathMin({s0.domain[1], sMid.domain[1], sTop.domain[1]}),
                       MathMax({s0.domain[2], sMid.domain[2], sTop.domain[2]})>>,
          slider |-> <<MathMin({s0.autoSliders[1], sMid.autoSliders[1],
                                sTop.autoSliders[1]}),
                       MathMax({s0.autoSliders[2], sMid.autoSliders[2],
                                sTop.autoSliders[2]})>>,
          error |-> "none"]
    ELSE Rejected3D("TypeError")

\* ------------------------------------------------------------------ getDims
\* new Map(labels.map((name, i) => [name, i])): a later entry with the same key
\* replaces the earlier value, so a key holds its last position.
LabelMap(ls) ==
    [name \in {ls[i] : i \in 1..Len(ls)} |->
        CHOOSE i \in 0..(Len(ls) - 1) :
            /\ ls[i + 1] = name
            /\ \A j \in 0..(Len(ls) - 1) : ls[j + 1] = name => j <= i]

EmptyMap == [name \in {} |-> 0]

\* getDims without the size check: a list with a repeated label gets a lookup.
getDimsUnchecked(ls) == [kind |-> "returned", lookup |-> LabelMap(ls)]

\* getDims(labels): throws when the map is smaller than the list, else returns
\* the lookup closure over the map.
getDims(ls) ==
    LET lookup == LabelMap(ls)
    IN  IF Cardinality(DOMAIN lookup) # Len(ls)
        THEN [kind |-> "threw", lookup |-> EmptyMap]
        ELSE [kind |-> "returned", lookup |-> lookup]

\* The closure with the test written as !index: position 0 counts as missing.
dimsLookupFalsy(lookup, name) ==
    IF name \in DOMAIN lookup /\ lookup[name] # 0
    THEN [name |-> name, kind |-> "returned", index |-> lookup[name]]
    ELSE [name |-> name, kind |-> "threw", index |-> -1]

\* The returned closure: lookup.get(name), throwing when it is undefined.
dimsLookup(lookup, name) ==
    IF name \in DOMAIN lookup
    THEN [name |-> name, kind |-> "returned", index |-> lookup[name]]
    ELSE [name |-> name, kind |-> "threw", index |-> -1]

\* ------------------------------------------------------------ isInterleaved
\* isInterleaved that knows RGB only: an extent of 4 is not recognised.
isInterleavedRgbOnly(sh) == Len(sh) > 0 /\ sh[Len(sh)] = 3

\* packages/loaders: shape[shape.length - 1] is undefined for an empty shape.
isInterleaved(sh) ==
    LET lastDimSize == IF Len(sh) = 0 THEN Undefined ELSE Num(sh[Len(sh)])
    IN  lastDimSize = Num(3) \/ lastDimSize = Num(4)

\* avivator: the same function, written a second time.
isInterleavedAvivator(sh) ==
    LET lastDimSize == IF Len(sh) = 0 THEN Undefined ELSE Num(sh[Len(sh)])
    IN  lastDimSize = Num(3) \/ lastDimSize = Num(4)

\* -------------------------------------------------------- guessTiffTileSize
RECURSIVE FloorLog2(_)
\* Math.floor(Math.log2(x)) for an integer x >= 1 (exact for every x a TIFF tile
\* size can take, which is below 2^32)
FloorLog2(x) == IF x < 2 THEN 0 ELSE 1 + FloorLog2(x \div 2)

\* Rounding the logarithm up instead of down: the next power of two.
nextPowerOf2(x) == IF 2 ^ FloorLog2(x) = x THEN x ELSE 2 ^ (FloorLog2(x) + 1)

\* 2 ** Math.floor(Math.log2(x))
prevPowerOf2(x) == 2 ^ FloorLog2(x)

MathMin2(a, b) == IF a <= b THEN a ELSE b

guessTiffTileSize(w, h) == prevPowerOf2(MathMin2(w, h))

\* --------------------------------------------------------------------- load
\* guessBioformatsLabels(data[0], imgMeta)
guessBioformatsLabels == <<"t", "c", "z", "y", "x">>

\* new ZarrPixelSource(arr, labels): the level keeps its array, the labels and
\* the tile size fixed by the array's chunking.
ZarrPixelSource(a, ls) ==
    [level |-> a.level, labels |-> ls, tileSize |-> a.tileSize]

\* data.map(arr => new ZarrPixelSource(arr, labels))
Pyramid(d) == [i \in 1..Len(d) |-> ZarrPixelSource(d[i], guessBioformatsLabels)]

\* load without the filter: every constructed level is returned.
loadUnfiltered(d) == Pyramid(d)

\* pyramid.filter(d => pyramid[0].tileSize === d.tileSize)
load(d) ==
    LET pyramid == Pyramid(d)
    IN  SelectSeq(pyramid, LAMBDA lv : pyramid[1].tileSize = lv.tileSize)

\* ===================================================================== state
NoStats == [mean |-> Undefined, sd |-> Undefined, q1 |-> Undefined,
            q3 |-> Undefined, median |-> Undefined,
            domain |-> <<Undefined, Undefined>>,
            contrastLimits |-> <<Undefined, Undefined>>]

NoDims == [kind |-> "none", lookup |-> EmptyMap]

NoLoad == [kind |-> "none", data |-> <<>>]

IdleStats ==
    /\ arr = <<>> /\ buf0 = <<>> /\ stats = NoStats
    /\ statsCall = "none" /\ calls = 0 /\ firstStats = NoStats

Idle3D ==
    /\ loader3d = [levels |-> 1, shapeZ |-> 1]
    /\ pc3d = "idle" /\ reqs = <<>> /\ planeStats = <<>>
    /\ result3d = NoResult3D

IdleDims ==
    /\ labels = <<>> /\ dims = NoDims /\ lookups = <<>>

IdleInterleaved ==
    /\ shape = <<>> /\ interleaved = [called |-> FALSE, loaders |-> FALSE, avivator |-> FALSE]

IdleTile ==
    /\ tileWidth = 1 /\ tileHeight = 1 /\ tileSize = 0

IdleLoad ==
    /\ data = <<>> /\ loaded = NoLoad

NoJsArray == [kind |-> "undefined", items |-> <<>>]

NoSingleResult ==
    [kind |-> "none", domain |-> NoJsArray, slider |-> NoJsArray, error |-> "none"]

IdleSingle ==
    /\ singleLoader = [isArray |-> FALSE, levels |-> 1, selection |-> "c0"]
    /\ singlePc = "idle" /\ singleReqs = <<>>
    /\ selectionStats = NoStats /\ singleResult = NoSingleResult

NoSource == [SizeC |-> 0, SizeT |-> 0, SizeZ |-> 0, levels |-> 0]

NoCreateResult == [kind |-> "none", source |-> NoSource]

NoFailure == [step |-> "none", error |-> "none"]

IdleCreate ==
    /\ urlOrFile = [type |-> "string", omeName |-> FALSE, files |-> <<>>]
    /\ createPc = "idle" /\ isOffsets404 = FALSE /\ source = NoSource
    /\ handlerCalls = <<>> /\ failedStep = NoFailure
    /\ createResult = NoCreateResult

NoChannels ==
    [selections |-> <<>>, domains |-> <<>>, sliders |-> <<>>,
     colors |-> <<>>, isOn |-> <<>>, ids |-> <<>>]

IdleChannels ==
    /\ channels = NoChannels
    /\ lastAction = [type |-> "none", lengthBefore |-> 0]

IdleAvivator == IdleSingle /\ IdleCreate /\ IdleChannels

IdleLoaders ==
    IdleStats /\ Idle3D /\ IdleDims /\ IdleInterleaved /\ IdleTile /\ IdleLoad

\* ================================================================ SpecStats
\* Sample values of an integer typed array, signed ones included.
Samples == (-1)..MaxVal

Buffers == UNION {[1..n -> Samples] : n \in 0..MaxLen}

InitStats ==
    /\ arr \in Buffers
    /\ buf0 = arr
    /\ stats = NoStats
    /\ statsCall = "none"
    /\ calls = 0
    /\ firstStats = NoStats
    /\ Idle3D /\ IdleDims /\ IdleInterleaved /\ IdleTile /\ IdleLoad
    /\ IdleAvivator

\* A caller runs getChannelStats on its array.
CallGetChannelStats ==
    /\ calls < MaxCalls
    /\ LET r == getChannelStats(arr)
       IN  /\ stats' = r.ret
           /\ arr' = r.arr
           /\ firstStats' = IF calls = 0 THEN r.ret ELSE firstStats
    /\ statsCall' = getChannelStatsOutcome(arr)
    /\ calls' = calls + 1
    /\ UNCHANGED <<buf0, vars3d, dimsVars, interleavedVars, tileVars, loadVars,
                   avivatorVars>>

NextStats == CallGetChannelStats

SpecStats == InitStats /\ [][NextStats]_vars

\* =================================================================== Spec3D
MaxLevels3D == 3
MaxShapeZ == 4
MaxRasterLen == 1
MaxRasterVal == 1

Rasters == UNION {[1..n -> 0..MaxRasterVal] : n \in 1..MaxRasterLen}

BackendErrors == {"io", "decode"}

Init3D ==
    /\ loader3d \in [levels : 1..MaxLevels3D, shapeZ : 1..MaxShapeZ]
    /\ pc3d = "idle"
    /\ reqs = <<>>
    /\ planeStats = <<>>
    /\ result3d = NoResult3D
    /\ IdleStats /\ IdleDims /\ IdleInterleaved /\ IdleTile /\ IdleLoad
    /\ IdleAvivator

Request(z) == [z |-> z, status |-> "pending", data |-> <<>>, error |-> "none"]

Others3D == <<statsVars, dimsVars, interleavedVars, tileVars, loadVars, avivatorVars>>

\* The call, up to its first await: lowResSource.getRaster({..., z: 0}).
Call3D ==
    /\ pc3d = "idle"
    /\ reqs' = <<Request(PlaneZ(loader3d, 1))>>
    /\ pc3d' = "await0"
    /\ UNCHANGED <<loader3d, planeStats, result3d, Others3D>>

\* The backend fulfils a pending getRaster request with a raster.
BackendResolve ==
    \E i \in 1..Len(reqs), r \in Rasters :
        /\ reqs[i].status = "pending"
        /\ reqs' = [reqs EXCEPT ![i].status = "resolved", ![i].data = r]
        /\ UNCHANGED <<loader3d, pc3d, planeStats, result3d, Others3D>>

\* The backend fails a pending getRaster request.
BackendReject ==
    \E i \in 1..Len(reqs), e \in BackendErrors :
        /\ reqs[i].status = "pending"
        /\ reqs' = [reqs EXCEPT ![i].status = "rejected", ![i].error = e]
        /\ UNCHANGED <<loader3d, pc3d, planeStats, result3d, Others3D>>

\* Resume0 with the first plane's statistics computed as soon as raster0 is in.
Resume0Eager ==
    /\ pc3d = "await0"
    /\ reqs[1].status = "resolved"
    /\ planeStats' = <<getChannelStats(reqs[1].data).ret>>
    /\ reqs' = Append(reqs, Request(PlaneZ(loader3d, 2)))
    /\ pc3d' = "awaitMid"
    /\ UNCHANGED <<loader3d, result3d, Others3D>>

\* raster0 arrived: the function goes on to request the middle plane.
Resume0 ==
    /\ pc3d = "await0"
    /\ reqs[1].status = "resolved"
    /\ reqs' = Append(reqs, Request(PlaneZ(loader3d, 2)))
    /\ pc3d' = "awaitMid"
    /\ UNCHANGED <<loader3d, planeStats, result3d, Others3D>>

\* rasterMid arrived: the function goes on to request the top plane.
ResumeMid ==
    /\ pc3d = "awaitMid"
    /\ reqs[2].status = "resolved"
    /\ reqs' = Append(reqs, Request(PlaneZ(loader3d, 3)))
    /\ pc3d' = "awaitTop"
    /\ UNCHANGED <<loader3d, planeStats, result3d, Others3D>>

\* The three getChannelStats calls and the return expression.
computeAndMerge(stats0, statsMid, statsTop) ==
    /\ planeStats' = <<stats0.ret, statsMid.ret, statsTop.ret>>
    /\ reqs' = [reqs EXCEPT ![1].data = stats0.arr,
                            ![2].data = statsMid.arr,
                            ![3].data = statsTop.arr]
    /\ result3d' = mergeStats3D(stats0.ret, statsMid.ret, statsTop.ret)

\* rasterTop arrived: the three statistics are computed and merged.
ResumeTop ==
    /\ pc3d = "awaitTop"
    /\ reqs[3].status = "resolved"
    /\ computeAndMerge(getChannelStats(reqs[1].data),
                       getChannelStats(reqs[2].data),
                       getChannelStats(reqs[3].data))
    /\ pc3d' = "done"
    /\ UNCHANGED <<loader3d, Others3D>>

\* The awaited request failed: the await throws and the call rejects with it.
ResumeRejected ==
    /\ pc3d \in {"await0", "awaitMid", "awaitTop"}
    /\ reqs[Len(reqs)].status = "rejected"
    /\ result3d' = Rejected3D(reqs[Len(reqs)].error)
    /\ pc3d' = "done"
    /\ UNCHANGED <<loader3d, reqs, planeStats, Others3D>>

Next3D ==
    \/ Call3D
    \/ BackendResolve
    \/ BackendReject
    \/ Resume0
    \/ ResumeMid
    \/ ResumeTop
    \/ ResumeRejected

Spec3D == Init3D /\ [][Next3D]_vars

\* ================================================================= SpecDims
MaxLabels == 4
MaxLookups == 2

LabelNames == {"t", "z", "c", "y", "x"}

\* Names a caller may ask for: the axis names and one that is never a label.
LookupNames == LabelNames \cup {"hi!"}

LabelLists == UNION {[1..n -> LabelNames] : n \in 0..MaxLabels}

InitDims ==
    /\ labels \in LabelLists
    /\ dims = NoDims
    /\ lookups = <<>>
    /\ IdleStats /\ Idle3D /\ IdleInterleaved /\ IdleTile /\ IdleLoad
    /\ IdleAvivator

OthersDims == <<statsVars, vars3d, interleavedVars, tileVars, loadVars, avivatorVars>>

\* const dims = getDims(labels)
CallGetDims ==
    /\ dims.kind = "none"
    /\ dims' = getDims(labels)
    /\ UNCHANGED <<labels, lookups, OthersDims>>

\* dims(name), on the lookup getDims returned
CallLookup ==
    \E name \in LookupNames :
        /\ dims.kind = "returned"
        /\ Len(lookups) < MaxLookups
        /\ lookups' = Append(lookups, dimsLookup(dims.lookup, name))
        /\ UNCHANGED <<labels, dims, OthersDims>>

NextDims == CallGetDims \/ CallLookup

SpecDims == InitDims /\ [][NextDims]_vars

\* ========================================================== SpecInterleaved
MaxDims == 4
MaxExtent == 5

\* Axis extents: the small ones, and the 24 of the documented examples.
Extents == (0..MaxExtent) \cup {24}

Shapes == UNION {[1..n -> Extents] : n \in 0..MaxDims}

InitInterleaved ==
    /\ shape \in Shapes
    /\ interleaved = [called |-> FALSE, loaders |-> FALSE, avivator |-> FALSE]
    /\ IdleStats /\ Idle3D /\ IdleDims /\ IdleTile /\ IdleLoad
    /\ IdleAvivator

\* Both implementations are asked about the same shape.
CallIsInterleaved ==
    /\ ~interleaved.called
    /\ interleaved' = [called |-> TRUE,
                       loaders |-> isInterleaved(shape),
                       avivator |-> isInterleavedAvivator(shape)]
    /\ UNCHANGED <<shape, statsVars, vars3d, dimsVars, tileVars, loadVars,
                   avivatorVars>>

NextInterleaved == CallIsInterleaved

SpecInterleaved == InitInterleaved /\ [][NextInterleaved]_vars

\* ================================================================= SpecTile
MaxTile == 300

InitTile ==
    /\ tileWidth \in 1..MaxTile
    /\ tileHeight \in 1..MaxTile
    /\ tileSize = 0
    /\ IdleStats /\ Idle3D /\ IdleDims /\ IdleInterleaved /\ IdleLoad
    /\ IdleAvivator

CallGuessTiffTileSize ==
    /\ tileSize = 0
    /\ tileSize' = guessTiffTileSize(tileWidth, tileHeight)
    /\ UNCHANGED <<tileWidth, tileHeight, statsVars, vars3d, dimsVars,
                   interleavedVars, loadVars, avivatorVars>>

NextTile == CallGuessTiffTileSize

SpecTile == InitTile /\ [][NextTile]_vars

\* ================================================================= SpecLoad
MaxPyramidLevels == 4

\* Tile sizes a level may report.
LevelTileSizes == {64, 100, 128, 256}

\* What loadMultiscales yields: one array per level, finest first.
MultiscaleData ==
    UNION {[1..n -> LevelTileSizes] : n \in 1..MaxPyramidLevels}

ArraysOf(ts) == [i \in 1..Len(ts) |-> [level |-> i - 1, tileSize |-> ts[i]]]

InitLoad ==
    /\ \E ts \in MultiscaleData : data = ArraysOf(ts)
    /\ loaded = NoLoad
    /\ IdleStats /\ Idle3D /\ IdleDims /\ IdleInterleaved /\ IdleTile
    /\ IdleAvivator

OthersLoad == <<statsVars, vars3d, dimsVars, interleavedVars, tileVars, avivatorVars>>

\* load(root, xmlSource), when reading the metadata and the arrays succeeds
LoadReturns ==
    /\ loaded.kind = "none"
    /\ loaded' = [kind |-> "returned", data |-> load(data)]
    /\ UNCHANGED <<data, OthersLoad>>

\* load(root, xmlSource), when xmlSource.text(), fromString or loadMultiscales
\* fails: the call rejects before a pyramid is built
LoadRejects ==
    /\ loaded.kind = "none"
    /\ loaded' = [kind |-> "rejected", data |-> <<>>]
    /\ UNCHANGED <<data, OthersLoad>>

NextLoad == LoadReturns \/ LoadRejects

SpecLoad == InitLoad /\ [][NextLoad]_vars

\* =============================================================== SpecSingle
\* A JavaScript array value, as a property read or a destructuring yields it.
JsArray(t) == [kind |-> "array", items |-> t]

\* Reading an array-valued property of the statistics record: undefined when
\* the record has no property of that name.
ArrayProperty(rec, name) ==
    IF name \in DOMAIN rec THEN JsArray(rec[name]) ELSE NoJsArray

\* Array.isArray(loader) ? loader[loader.length - 1] : loader
singleTarget(ld) ==
    IF ld.isArray
    THEN [kind |-> "level", level |-> ld.levels - 1]
    ELSE [kind |-> "loader", level |-> 0]

\* const { domain, autoSliders: slider } = selectionStats;
\* return { domain, slider };
singleReturn(st) ==
    [kind |-> "returned",
     domain |-> ArrayProperty(st, "domain"),
     slider |-> ArrayProperty(st, "autoSliders"),
     error |-> "none"]

MaxSingleRasterLen == 2

SingleRasters == UNION {[1..n -> Samples] : n \in 1..MaxSingleRasterLen}

ChannelSelections == {"c0", "c1"}

\* A single pixel source, or a pyramid of one or more levels.
SingleLoaders ==
    [isArray : {FALSE}, levels : {1}, selection : ChannelSelections]
        \cup [isArray : {TRUE}, levels : 1..MaxLevels3D,
              selection : ChannelSelections]

InitSingle ==
    /\ singleLoader \in SingleLoaders
    /\ singlePc = "idle"
    /\ singleReqs = <<>>
    /\ selectionStats = NoStats
    /\ singleResult = NoSingleResult
    /\ IdleLoaders /\ IdleCreate /\ IdleChannels

OthersSingle == <<loaderVars, createVars, channelVars>>

\* getSingleSelectionStats({ loader, selection }) up to its await:
\* data.getRaster({ selection }).
CallSingle ==
    /\ singlePc = "idle"
    /\ singleReqs' = <<[target |-> singleTarget(singleLoader),
                        selection |-> singleLoader.selection,
                        status |-> "pending", data |-> <<>>, error |-> "none"]>>
    /\ singlePc' = "await"
    /\ UNCHANGED <<singleLoader, selectionStats, singleResult, OthersSingle>>

\* The backend answers the pending getRaster request with a raster.
SingleBackendResolve ==
    \E i \in 1..Len(singleReqs), r \in SingleRasters :
        /\ singleReqs[i].status = "pending"
        /\ singleReqs' = [singleReqs EXCEPT ![i].status = "resolved",
                                            ![i].data = r]
        /\ UNCHANGED <<singleLoader, singlePc, selectionStats, singleResult,
                       OthersSingle>>

\* The backend fails the pending getRaster request.
SingleBackendReject ==
    \E i \in 1..Len(singleReqs), e \in BackendErrors :
        /\ singleReqs[i].status = "pending"
        /\ singleReqs' = [singleReqs EXCEPT ![i].status = "rejected",
                                            ![i].error = e]
        /\ UNCHANGED <<singleLoader, singlePc, selectionStats, singleResult,
                       OthersSingle>>

\* getChannelStats(raster.data) and the return statement.
computeSingle(st) ==
    /\ selectionStats' = st.ret
    /\ singleReqs' = [singleReqs EXCEPT ![1].data = st.arr]
    /\ singleResult' = singleReturn(st.ret)

\* The raster arrived: its statistics are computed and returned.
ResumeSingle ==
    /\ singlePc = "await"
    /\ singleReqs[1].status = "resolved"
    /\ computeSingle(getChannelStats(singleReqs[1].data))
    /\ singlePc' = "done"
    /\ UNCHANGED <<singleLoader, OthersSingle>>

\* The request failed: the await throws and the call rejects with the error.
ResumeSingleRejected ==
    /\ singlePc = "await"
    /\ singleReqs[1].status = "rejected"
    /\ singleResult' = [kind |-> "rejected", domain |-> NoJsArray,
                        slider |-> NoJsArray, error |-> singleReqs[1].error]
    /\ singlePc' = "done"
    /\ UNCHANGED <<singleLoader, singleReqs, selectionStats, OthersSingle>>

NextSingle ==
    \/ CallSingle
    \/ SingleBackendResolve
    \/ SingleBackendReject
    \/ ResumeSingle
    \/ ResumeSingleRejected

SpecSingle == InitSingle /\ [][NextSingle]_vars

\* =============================================================== SpecCreate
MAX_CHANNELS_FOR_SNACKBAR_WARNING == 40

\* Whether the name of a string URL or of a File holds 'ome.tiff' or 'ome.tif';
\* an array (a local Zarr) is never an OME-TIFF.
isOMETIFF(u) == IF u.type = "array" THEN FALSE ELSE u.omeName

\* The message createLoader gives its UnsupportedBrowserError.
UnsupportedBrowserMessage ==
    "Cannot upload a local Zarr with this browser. Try using Chrome, Firefox, or Microsoft Edge."

\* numImagesPerResolution * (hasSubIFDs ? 1 : levels)
totalImageCount(src, hasSubIFDs) ==
    (src.SizeC * src.SizeT * src.SizeZ) * (IF hasSubIFDs THEN 1 ELSE src.levels)

\* The catch block with e.message handed to the handler whatever was thrown.
catchBlockAlwaysMessage(e) ==
    [call |-> [handler |-> "handleLoaderError",
               arg |-> [kind |-> "string",
                        value |-> IF e = "UnsupportedBrowserError"
                                  THEN UnsupportedBrowserMessage ELSE e]],
     result |-> [kind |-> "dataNull", source |-> NoSource]]

\* The catch block: the handler call it makes and the value it returns.
catchBlock(e) ==
    [call |-> [handler |-> "handleLoaderError",
               arg |-> IF e = "UnsupportedBrowserError"
                       THEN [kind |-> "string", value |-> UnsupportedBrowserMessage]
                       ELSE [kind |-> "null", value |-> ""]],
     result |-> [kind |-> "dataNull", source |-> NoSource]]

MaxFiles == 2
MaxSize == 4
MaxSourceLevels == 2

\* The files of a local Zarr: each has an arrayBuffer method or lacks it.
FileLists == UNION {[1..n -> [hasArrayBuffer : BOOLEAN]] : n \in 0..MaxFiles}

\* A URL string, a File, or an array of Files.
UrlOrFiles ==
    [type : {"string", "File"}, omeName : BOOLEAN, files : {<<>>}]
        \cup [type : {"array"}, omeName : {FALSE}, files : FileLists]

\* What a loader resolves with: the metadata sizes and the number of levels.
Sources ==
    [SizeC : 1..MaxSize, SizeT : 1..MaxSize, SizeZ : 1..MaxSize,
     levels : 1..MaxSourceLevels]

FetchStatuses == {200, 404, 500}

RejectionErrors == {"Error", "TypeError"}

AwaitSteps ==
    {"loadOmeTiffFile", "fetch", "json", "loadOmeTiffUrl", "fromUrl",
     "getImage", "loadBioformatsZarr"}

InitCreate ==
    /\ urlOrFile \in UrlOrFiles
    /\ createPc = "idle"
    /\ isOffsets404 = FALSE
    /\ source = NoSource
    /\ handlerCalls = <<>>
    /\ failedStep = NoFailure
    /\ createResult = NoCreateResult
    /\ IdleLoaders /\ IdleSingle /\ IdleChannels

OthersCreate == <<loaderVars, singleVars, channelVars>>

\* Something thrown inside the try block: the catch block runs and the call
\* resolves with what it returns.  The two handlers are the caller's state
\* setters and return normally.
Caught(step, e) ==
    /\ handlerCalls' = Append(handlerCalls, catchBlock(e).call)
    /\ createResult' = catchBlock(e).result
    /\ failedStep' = [step |-> step, error |-> e]
    /\ createPc' = "done"

\* createLoader(urlOrFile, handleOffsetsNotFound, handleLoaderError) up to its
\* first await, or to the throw of the unsupported-browser check.
CallCreateLoader ==
    /\ createPc = "idle"
    /\ IF isOMETIFF(urlOrFile)
       THEN /\ createPc' = IF urlOrFile.type = "File"
                           THEN "loadOmeTiffFile" ELSE "fetch"
            /\ UNCHANGED <<handlerCalls, failedStep, createResult>>
       ELSE IF urlOrFile.type = "array" /\ urlOrFile.files = <<>>
       THEN Caught("unsupportedBrowserCheck", "TypeError")
       ELSE IF urlOrFile.type = "array" /\ ~urlOrFile.files[1].hasArrayBuffer
       THEN Caught("unsupportedBrowserCheck", "UnsupportedBrowserError")
       ELSE /\ createPc' = "loadBioformatsZarr"
            /\ UNCHANGED <<handlerCalls, failedStep, createResult>>
    /\ UNCHANGED <<urlOrFile, isOffsets404, source, OthersCreate>>

\* await loadOmeTiff(urlOrFile) resolves: the source is returned.
ResolveLoadOmeTiffFile ==
    \E src \in Sources :
        /\ createPc = "loadOmeTiffFile"
        /\ source' = src
        /\ createResult' = [kind |-> "source", source |-> src]
        /\ createPc' = "done"
        /\ UNCHANGED <<urlOrFile, isOffsets404, handlerCalls, failedStep,
                       OthersCreate>>

\* await fetch(...) resolves: offsets are parsed unless the status is 404.
ResolveFetch ==
    \E status \in FetchStatuses :
        /\ createPc = "fetch"
        /\ isOffsets404' = (status = 404)
        /\ createPc' = IF status = 404 THEN "loadOmeTiffUrl" ELSE "json"
        /\ UNCHANGED <<urlOrFile, source, handlerCalls, failedStep,
                       createResult, OthersCreate>>

\* await res.json() resolves with the offsets.
ResolveJson ==
    /\ createPc = "json"
    /\ createPc' = "loadOmeTiffUrl"
    /\ UNCHANGED <<urlOrFile, isOffsets404, source, handlerCalls, failedStep,
                   createResult, OthersCreate>>

\* await loadOmeTiff(urlOrFile, { offsets }) resolves; getTotalImageCount is
\* entered and suspends at await from(src).
ResolveLoadOmeTiffUrl ==
    \E src \in Sources :
        /\ createPc = "loadOmeTiffUrl"
        /\ source' = src
        /\ createPc' = "fromUrl"
        /\ UNCHANGED <<urlOrFile, isOffsets404, handlerCalls, failedStep,
                       createResult, OthersCreate>>

\* await from(src) resolves; getTotalImageCount suspends at tiff.getImage(0).
ResolveFrom ==
    /\ createPc = "fromUrl"
    /\ createPc' = "getImage"
    /\ UNCHANGED <<urlOrFile, isOffsets404, source, handlerCalls, failedStep,
                   createResult, OthersCreate>>

\* await tiff.getImage(0) resolves: the count is computed, the warning is
\* raised when the offsets were missing and the count is large, and the source
\* is returned.
ResolveGetImage ==
    \E hasSubIFDs \in BOOLEAN :
        /\ createPc = "getImage"
        /\ handlerCalls' =
               IF /\ isOffsets404
                  /\ totalImageCount(source, hasSubIFDs)
                         > MAX_CHANNELS_FOR_SNACKBAR_WARNING
               THEN Append(handlerCalls,
                           [handler |-> "handleOffsetsNotFound",
                            arg |-> [kind |-> "boolean", value |-> "true"]])
               ELSE handlerCalls
        /\ createResult' = [kind |-> "source", source |-> source]
        /\ createPc' = "done"
        /\ UNCHANGED <<urlOrFile, isOffsets404, source, failedStep, OthersCreate>>

\* await loadBioformatsZarr(urlOrFile) resolves: the source is returned.
ResolveLoadBioformatsZarr ==
    \E src \in Sources :
        /\ createPc = "loadBioformatsZarr"
        /\ source' = src
        /\ createResult' = [kind |-> "source", source |-> src]
        /\ createPc' = "done"
        /\ UNCHANGED <<urlOrFile, isOffsets404, handlerCalls, failedStep,
                       OthersCreate>>

\* The awaited promise rejects: the await throws inside the try block.
RejectAwait ==
    \E e \in RejectionErrors :
        /\ createPc \in AwaitSteps
        /\ Caught(createPc, e)
        /\ UNCHANGED <<urlOrFile, isOffsets404, source, OthersCreate>>

NextCreate ==
    \/ CallCreateLoader
    \/ ResolveLoadOmeTiffFile
    \/ ResolveFetch
    \/ ResolveJson
    \/ ResolveLoadOmeTiffUrl
    \/ ResolveFrom
    \/ ResolveGetImage
    \/ ResolveLoadBioformatsZarr
    \/ RejectAwait

SpecCreate == InitCreate /\ [][NextCreate]_vars

\* ============================================================= SpecChannels
\* arr[index] = v on a copy of arr (index is 0-based): an index past the end
\* lengthens the copy, the skipped positions being holes.
SetAt(a, index, v) ==
    [i \in 1..(IF index + 1 > Len(a) THEN index + 1 ELSE Len(a)) |->
        IF i = index + 1 THEN v
        ELSE IF i <= Len(a) THEN a[i] ELSE "hole"]

\* arr.filter((_, i) => i !== index)
RemoveAt(a, index) ==
    IF index \in 0..(Len(a) - 1)
    THEN [i \in 1..(Len(a) - 1) |-> IF i <= index THEN a[i] ELSE a[i + 1]]
    ELSE a

\* case 'CHANGE_CHANNEL'
changeChannel(state, index, value) ==
    [state EXCEPT !.selections = SetAt(state.selections, index, value.selection),
                  !.domains = SetAt(state.domains, index, value.domain),
                  !.sliders = SetAt(state.sliders, index, value.slider)]

\* case 'CHANGE_COLOR'
changeColor(state, index, value) ==
    [state EXCEPT !.colors = SetAt(state.colors, index, value)]

\* case 'CHANGE_SLIDER'
changeSlider(state, index, value) ==
    [state EXCEPT !.sliders = SetAt(state.sliders, index, value)]

\* case 'CHANGE_DOMAIN'
changeDomain(state, index, value) ==
    [state EXCEPT !.domains = SetAt(state.domains, index, value)]

\* case 'TOGGLE_ON'
toggleOn(state, index) ==
    [state EXCEPT !.isOn = SetAt(state.isOn, index, ~state.isOn[index + 1])]

\* case 'ADD_CHANNEL'; id is the value of String(Math.random())
addChannel(state, value, id) ==
    [selections |-> Append(state.selections, value.selection),
     domains |-> Append(state.domains, value.domain),
     colors |-> Append(state.colors, <<255, 255, 255>>),
     isOn |-> Append(state.isOn, TRUE),
     sliders |-> Append(state.sliders, value.slider),
     ids |-> Append(state.ids, id)]

\* removeChannel with the ids left as they are.
removeChannelKeepIds(state, index) ==
    [sliders |-> RemoveAt(state.sliders, index),
     colors |-> RemoveAt(state.colors, index),
     isOn |-> RemoveAt(state.isOn, index),
     ids |-> state.ids,
     domains |-> RemoveAt(state.domains, index),
     selections |-> RemoveAt(state.selections, index)]

\* case 'REMOVE_CHANNEL'
removeChannel(state, index) ==
    [sliders |-> RemoveAt(state.sliders, index),
     colors |-> RemoveAt(state.colors, index),
     isOn |-> RemoveAt(state.isOn, index),
     ids |-> RemoveAt(state.ids, index),
     domains |-> RemoveAt(state.domains, index),
     selections |-> RemoveAt(state.selections, index)]

MaxChannels == 2

ChannelDomains == {<<0, 255>>}
ChannelSliders == {<<0, 255>>, <<10, 100>>}
ChannelColors == {<<255, 255, 255>>, <<255, 0, 0>>}
ChannelIds == {"0.5"}

\* The value of CHANGE_CHANNEL and ADD_CHANNEL actions.
ChannelValues ==
    [selection : ChannelSelections, domain : ChannelDomains,
     slider : ChannelSliders]

\* Reducer states whose six arrays hold n channels.
ChannelStates(n) ==
    [selections : [1..n -> ChannelSelections], domains : [1..n -> ChannelDomains],
     sliders : [1..n -> ChannelSliders], colors : [1..n -> ChannelColors],
     isOn : [1..n -> BOOLEAN], ids : [1..n -> ChannelIds]]

NumChannels == Len(channels.selections)

ChannelIndexes == 0..(NumChannels - 1)

InitChannels ==
    /\ channels \in UNION {ChannelStates(n) : n \in 0..MaxChannels}
    /\ lastAction = [type |-> "none", lengthBefore |-> 0]
    /\ IdleLoaders /\ IdleSingle /\ IdleCreate

OthersChannels == <<loaderVars, singleVars, createVars>>

\* The bookkeeping every dispatch does.
Dispatched(type) ==
    /\ lastAction' = [type |-> type, lengthBefore |-> NumChannels]
    /\ UNCHANGED OthersChannels

\* The dispatches below are those of an index inside the channel range;
\* RESET_CHANNELS and unknown types are not dispatched.
DispatchChangeChannel ==
    \E index \in ChannelIndexes, value \in ChannelValues :
        /\ channels' = changeChannel(channels, index, value)
        /\ Dispatched("CHANGE_CHANNEL")

DispatchChangeColor ==
    \E index \in ChannelIndexes, value \in ChannelColors :
        /\ channels' = changeColor(channels, index, value)
        /\ Dispatched("CHANGE_COLOR")

DispatchChangeSlider ==
    \E index \in ChannelIndexes, value \in ChannelSliders :
        /\ channels' = changeSlider(channels, index, value)
        /\ Dispatched("CHANGE_SLIDER")

DispatchChangeDomain ==
    \E index \in ChannelIndexes, value \in ChannelDomains :
        /\ channels' = changeDomain(channels, index, value)
        /\ Dispatched("CHANGE_DOMAIN")

DispatchToggleOn ==
    \E index \in ChannelIndexes :
        /\ channels' = toggleOn(channels, index)
        /\ Dispatched("TOGGLE_ON")

DispatchAddChannel ==
    \E value \in ChannelValues, id \in ChannelIds :
        /\ NumChannels < MaxChannels
        /\ channels' = addChannel(channels, value, id)
        /\ Dispatched("ADD_CHANNEL")

DispatchRemoveChannel ==
    \E index \in ChannelIndexes :
        /\ channels' = removeChannel(channels, index)
        /\ Dispatched("REMOVE_CHANNEL")

NextChannels ==
    \/ DispatchChangeChannel
    \/ DispatchChangeColor
    \/ DispatchChangeSlider
    \/ DispatchChangeDomain
    \/ DispatchToggleOn
    \/ DispatchAddChannel
    \/ DispatchRemoveChannel

SpecChannels == InitChannels /\ [][NextChannels]_vars

\* =================================================================== claims
\* Helpers of the statements below.
IsMinOf(m, a) == (\E i \in 1..Len(a) : a[i] = m) /\ (\A i \in 1..Len(a) : m <= a[i])

IsMaxOf(m, a) == (\E i \in 1..Len(a) : a[i] = m) /\ (\A i \in 1..Len(a) : m >= a[i])

AllResolved == Len(reqs) = 3 /\ \A i \in 1..3 : reqs[i].status = "resolved"

HasDuplicate(ls) == \E i, j \in 1..Len(ls) : i # j /\ ls[i] = ls[j]

RECURSIVE IsPowerOfTwo(_)
IsPowerOfTwo(p) == p = 1 \/ (p > 1 /\ p % 2 = 0 /\ IsPowerOfTwo(p \div 2))

\* C1: for every non-empty buffer, getChannelStats returns domain = [minimum
\* sample, maximum sample] and quartiles with q1 <= median <= q3.
C1_DomainAndQuartileOrder ==
    (statsCall = "returned" /\ Len(buf0) >= 1) =>
        /\ stats.domain[1].kind = "number" /\ IsMinOf(stats.domain[1].num, buf0)
        /\ stats.domain[2].kind = "number" /\ IsMaxOf(stats.domain[2].num, buf0)
        /\ stats.q1.num <= stats.median.num
        /\ stats.median.num <= stats.q3.num

\* C2: getChannelStats called on an empty buffer fails with an error and never
\* returns a statistics record.
C2_EmptyBufferRejected ==
    (calls > 0 /\ buf0 = <<>>) => statsCall = "threw"

\* C4: the pyramid load returns is exactly the constructed levels whose tileSize
\* equals that of level 0, in the original order: level 0 first, none with
\* another tileSize included, none with an equal tileSize dropped.
C4_PyramidKeepsLevel0TileSize ==
    loaded.kind = "returned" =>
        LET out == loaded.data
        IN  /\ Len(out) >= 1
            /\ out[1].level = 0
            /\ \A i \in 1..Len(out) :
                   /\ out[i].level \in 0..(Len(data) - 1)
                   /\ out[i] = ZarrPixelSource(data[out[i].level + 1],
                                               guessBioformatsLabels)
                   /\ out[i].tileSize = data[1].tileSize
            /\ \A i, j \in 1..Len(out) : i < j => out[i].level < out[j].level
            /\ \A k \in 1..Len(data) :
                   data[k].tileSize = data[1].tileSize =>
                       \E i \in 1..Len(out) : out[i].level = k - 1

\* Tile sizes [256, 256, 128, 100]: the returned pyramid is levels 0 and 1.
C4_Witness ==
    /\ loaded.kind = "returned"
    /\ [i \in 1..Len(data) |-> data[i].tileSize] = <<256, 256, 128, 100>>
    /\ Len(loaded.data) = 2

\* C5: when all three raster fetches succeed, getSingleSelectionStats3D returns
\* domain = [min of the planes' domain lower bounds, max of their upper bounds]
\* and slider = [min of the planes' contrast-limit lower bounds, max of their
\* upper bounds], the bounds being those getChannelStats returns per plane.
C5_MergedDomainAndSlider ==
    (pc3d = "done" /\ AllResolved) =>
        /\ result3d.kind = "returned"
        /\ result3d.domain =
               <<MathMin({planeStats[i].domain[1] : i \in 1..3}),
                 MathMax({planeStats[i].domain[2] : i \in 1..3})>>
        /\ result3d.slider =
               <<MathMin({planeStats[i].contrastLimits[1] : i \in 1..3}),
                 MathMax({planeStats[i].contrastLimits[2] : i \in 1..3})>>

\* C6: no per-plane statistic is computed and no merged result is produced
\* before all three getRaster requests have resolved; if a request fails, the
\* call fails with that request's error and never returns a merged result.
C6_CombineOnlyAfterAllResolve ==
    /\ (planeStats # <<>> \/ result3d.kind = "returned") => AllResolved
    /\ \A i \in 1..Len(reqs) :
           reqs[i].status = "rejected" =>
               /\ planeStats = <<>>
               /\ result3d.kind # "returned"
               /\ pc3d = "done" => result3d = Rejected3D(reqs[i].error)

\* All three requests resolved, and the three statistics were computed.
C6_Witness ==
    /\ pc3d = "done"
    /\ AllResolved
    /\ Len(planeStats) = 3

\* The middle request failed after the first resolved: the call rejected with
\* the backend's error and the third request was never issued.
C6_WitnessFailure ==
    /\ pc3d = "done"
    /\ Len(reqs) = 2
    /\ reqs[1].status = "resolved"
    /\ reqs[2].status = "rejected"
    /\ result3d = Rejected3D("decode")

\* C7: getDims throws, before returning a lookup, for every label list in
\* which a label occurs more than once, and succeeds for every list of
\* pairwise distinct labels.
C7_DuplicateLabelsRejected ==
    dims.kind # "none" =>
        (dims.kind = "threw" <=> HasDuplicate(labels))

\* getDims(["t", "z", "c", "t"]) threw.
C7_Witness ==
    /\ labels = <<"t", "z", "c", "t">>
    /\ dims.kind = "threw"

\* C8: for pairwise distinct labels, the lookup maps labels[i] to i whatever
\* lookups came before, failed ones included, and a lookup of a name that is
\* not in the list always throws.
C8_LookupIsPosition ==
    (dims.kind = "returned" /\ ~HasDuplicate(labels)) =>
        \A n \in 1..Len(lookups) :
            IF \E i \in 1..Len(labels) : labels[i] = lookups[n].name
            THEN /\ lookups[n].kind = "returned"
                 /\ lookups[n].index \in 0..(Len(labels) - 1)
                 /\ labels[lookups[n].index + 1] = lookups[n].name
            ELSE lookups[n].kind = "threw"

\* With labels [t, z, c, y]: a failed lookup of "hi!", then "t" gives 0.
C8_Witness ==
    /\ labels = <<"t", "z", "c", "y">>
    /\ dims.kind = "returned"
    /\ Len(lookups) = 2
    /\ lookups[1].name = "hi!" /\ lookups[1].kind = "threw"
    /\ lookups[2].name = "t" /\ lookups[2].kind = "returned"
    /\ lookups[2].index = 0

\* C9: isInterleaved(shape) is true exactly when the last axis extent is 3 or 4
\* (false for an empty shape), and the loaders and the avivator implementation
\* agree on every shape.
C9_InterleavedIffLastIs3Or4 ==
    interleaved.called =>
        /\ interleaved.loaders <=>
               (Len(shape) > 0 /\ shape[Len(shape)] \in {3, 4})
        /\ interleaved.avivator = interleaved.loaders

\* isInterleaved([1, 24, 24, 3]) answered true.
C9_Witness ==
    /\ interleaved.called
    /\ shape = <<1, 24, 24, 3>>
    /\ interleaved.loaders
    /\ interleaved.avivator

\* C10: guessTiffTileSize returns the largest power of two not above
\* min(tileWidth, tileHeight): a power of two p with p <= min < 2 * p; and
\* prevPowerOf2(300) = 256, prevPowerOf2(256) = 256.
C10_LargestPowerOfTwoBelowMin ==
    tileSize # 0 =>
        /\ IsPowerOfTwo(tileSize)
        /\ tileSize <= tileWidth /\ tileSize <= tileHeight
        /\ tileWidth < 2 * tileSize \/ tileHeight < 2 * tileSize
        /\ prevPowerOf2(300) = 256
        /\ prevPowerOf2(256) = 256

\* A 300 x 256 tiling gave a tile size of 256.
C10_Witness ==
    /\ tileWidth = 300
    /\ tileHeight = 256
    /\ tileSize = 256

\* ------------------------------------------------ getChannelStats, continued
\* The element at 0-based rank r of s sorted in ascending order.
AtRank(s, r) ==
    CHOOSE v \in {s[i] : i \in 1..Len(s)} :
        /\ Cardinality({i \in 1..Len(s) : s[i] < v}) <= r
        /\ r < Cardinality({i \in 1..Len(s) : s[i] <= v})

Occurrences(s, v) == Cardinality({i \in 1..Len(s) : s[i] = v})

SameSamples(s, t) ==
    /\ Len(s) = Len(t)
    /\ \A v \in {s[i] : i \in 1..Len(s)} \cup {t[i] : i \in 1..Len(t)} :
           Occurrences(s, v) = Occurrences(t, v)

PositiveSamples(s) == SelectSeq(s, LAMBDA x : x > 0)

\* C11: for every non-empty buffer of non-negative samples the returned
\* contrastLimits [low, high] satisfy domain[0] <= low <= high <= domain[1].
C11_ContrastLimitsWithinDomain ==
    (/\ statsCall = "returned"
     /\ Len(buf0) >= 1
     /\ \A i \in 1..Len(buf0) : buf0[i] >= 0) =>
        /\ \A i \in 1..2 : stats.contrastLimits[i].kind = "number"
        /\ LeqJs(stats.domain[1], stats.contrastLimits[1])
        /\ LeqJs(stats.contrastLimits[1], stats.contrastLimits[2])
        /\ LeqJs(stats.contrastLimits[2], stats.domain[2])

\* A buffer that is all zeros except one sample at the top of the range.
C11_Witness ==
    /\ statsCall = "returned"
    /\ buf0 = <<0, 0, 0, MaxVal>>
    /\ stats.domain = <<Num(0), Num(MaxVal)>>
    /\ stats.contrastLimits = <<Num(MaxVal), Num(MaxVal)>>

\* C12: for every non-empty buffer of length n, median, q1 and q3 are the
\* elements at 0-based ranks floor(n/2), floor(n/4) and 3*floor(n/4) of the
\* buffer sorted in ascending order.
C12_QuartilesAreSortedRanks ==
    (calls = 1 /\ statsCall = "returned" /\ Len(buf0) >= 1) =>
        /\ stats.median = Num(AtRank(buf0, Len(buf0) \div 2))
        /\ stats.q1 = Num(AtRank(buf0, Len(buf0) \div 4))
        /\ stats.q3 = Num(AtRank(buf0, 3 * (Len(buf0) \div 4)))

\* C13: for every buffer length n >= 1 each quartile selection is called with
\* its target rank inside its search range: floor(n/4) in [0, floor(n/2)] and
\* 3*floor(n/4) in [floor(n/2), n-1].
C13_SelectionRankInsideRange ==
    (statsCall = "returned" /\ Len(buf0) >= 1) =>
        /\ firstQuartileSelection(Len(buf0)).left <= firstQuartileSelection(Len(buf0)).k
        /\ firstQuartileSelection(Len(buf0)).k <= firstQuartileSelection(Len(buf0)).right
        /\ thirdQuartileSelection(Len(buf0)).left <= thirdQuartileSelection(Len(buf0)).k
        /\ thirdQuartileSelection(Len(buf0)).k <= thirdQuartileSelection(Len(buf0)).right

\* C14: contrastLimits come from the strictly positive samples only: with
\* m > 0 of them, low and high are the elements at 0-based ranks
\* floor(m*0.0005) and floor(m*0.9995) of those samples sorted ascending;
\* with m = 0, contrastLimits is [0, 0].
C14_ContrastLimitsFromPositiveSamples ==
    (calls = 1 /\ statsCall = "returned") =>
        LET pos == PositiveSamples(buf0)
            m == Len(pos)
        IN  IF m > 0
            THEN stats.contrastLimits =
                     <<Num(AtRank(pos, (m * 5) \div 10000)),
                       Num(AtRank(pos, (m * 9995) \div 10000))>>
            ELSE stats.contrastLimits = <<Num(0), Num(0)>>

\* A buffer with a negative, a zero and two distinct positive samples.
C14_Witness ==
    /\ calls = 1
    /\ statsCall = "returned"
    /\ buf0 = <<2, -1, 0, 1>>
    /\ stats.contrastLimits = <<Num(1), Num(2)>>

\* A buffer without a positive sample.
C14_WitnessNoPositive ==
    /\ calls = 1
    /\ statsCall = "returned"
    /\ buf0 = <<0, -1, 0>>
    /\ stats.contrastLimits = <<Num(0), Num(0)>>

C15_PlanesFirstMiddleLast ==
    \A i \in 1..Len(reqs) :
        /\ reqs[i].z = (CASE i = 1 -> 0
                          [] i = 2 -> loader3d.shapeZ \div 2
                          [] i = 3 -> loader3d.shapeZ - 1)
        /\ reqs[i].z \in 0..(loader3d.shapeZ - 1)

\* -------------------------------------------------- getSingleSelectionStats
\* C16: getSingleSelectionStats issues exactly one getRaster request, to the
\* last (coarsest) level when the loader is a sequence of levels and to the
\* loader itself otherwise, and returns domain and slider equal to the domain
\* and the contrast limits getChannelStats computes for that raster.
C16_OneRequestAndChannelStats ==
    /\ singlePc # "idle" =>
           /\ Len(singleReqs) = 1
           /\ singleReqs[1].target =
                  (IF singleLoader.isArray
                   THEN [kind |-> "level", level |-> singleLoader.levels - 1]
                   ELSE [kind |-> "loader", level |-> 0])
    /\ (singlePc = "done" /\ singleReqs[1].status = "resolved") =>
           /\ singleResult.kind = "returned"
           /\ singleResult.domain = JsArray(selectionStats.domain)
           /\ singleResult.slider = JsArray(selectionStats.contrastLimits)

\* ------------------------------------------------------------- createLoader
LoaderErrorCalls ==
    SelectSeq(handlerCalls, LAMBDA c : c.handler = "handleLoaderError")

\* C18: createLoader never fails towards its caller: if a step fails,
\* handleLoaderError is called exactly once (with the message for an
\* unsupported-browser failure, with null otherwise) and the result is
\* {data: null}; if no step fails, handleLoaderError is never called and the
\* loaded source is returned.
C18_FailuresHandledOnce ==
    /\ createResult.kind # "rejected"
    /\ failedStep.step # "none" =>
           /\ createPc = "done"
           /\ Len(LoaderErrorCalls) = 1
           /\ LoaderErrorCalls[1].arg =
                  (IF failedStep.error = "UnsupportedBrowserError"
                   THEN [kind |-> "string", value |-> UnsupportedBrowserMessage]
                   ELSE [kind |-> "null", value |-> ""])
           /\ createResult = [kind |-> "dataNull", source |-> NoSource]
    /\ failedStep.step = "none" =>
           /\ LoaderErrorCalls = <<>>
           /\ createPc = "done" =>
                  /\ source # NoSource
                  /\ createResult = [kind |-> "source", source |-> source]

\* getTotalImageCount failed after the OME-TIFF itself had loaded.
C18_Witness ==
    /\ createPc = "done"
    /\ failedStep.step = "getImage"
    /\ source # NoSource
    /\ handlerCalls = <<[handler |-> "handleLoaderError",
                         arg |-> [kind |-> "null", value |-> ""]]>>
    /\ createResult.kind = "dataNull"

\* A local Zarr whose first file has no arrayBuffer method.
C18_WitnessUnsupported ==
    /\ createPc = "done"
    /\ urlOrFile.type = "array"
    /\ failedStep = [step |-> "unsupportedBrowserCheck",
                     error |-> "UnsupportedBrowserError"]
    /\ handlerCalls = <<[handler |-> "handleLoaderError",
                         arg |-> [kind |-> "string",
                                  value |-> UnsupportedBrowserMessage]]>>
    /\ createResult.kind = "dataNull"

\* No step failed, the offsets were missing and the warning was raised.
C18_WitnessLoaded ==
    /\ createPc = "done"
    /\ failedStep = NoFailure
    /\ isOffsets404
    /\ handlerCalls = <<[handler |-> "handleOffsetsNotFound",
                         arg |-> [kind |-> "boolean", value |-> "true"]]>>
    /\ createResult = [kind |-> "source", source |-> source]

\* ---------------------------------------------------------- channelsReducer
ChannelArrays == {"selections", "domains", "sliders", "colors", "isOn", "ids"}

\* C19: starting from a state whose six per-channel arrays have equal length,
\* after any sequence of ADD_CHANNEL, REMOVE_CHANNEL, TOGGLE_ON,
\* CHANGE_CHANNEL, CHANGE_COLOR, CHANGE_SLIDER and CHANGE_DOMAIN actions with
\* an index inside the channel range the six arrays still have equal length;
\* ADD_CHANNEL increases that length by exactly one, REMOVE_CHANNEL decreases
\* it by exactly one, and the other actions leave it unchanged.
C19_ArraysStayAligned ==
    /\ DOMAIN channels = ChannelArrays
    /\ \A f \in ChannelArrays : Len(channels[f]) = Len(channels.selections)
    /\ lastAction.type = "ADD_CHANNEL" =>
           Len(channels.ids) = lastAction.lengthBefore + 1
    /\ lastAction.type = "REMOVE_CHANNEL" =>
           Len(channels.ids) = lastAction.lengthBefore - 1
    /\ lastAction.type \in {"TOGGLE_ON", "CHANGE_CHANNEL", "CHANGE_COLOR",
                            "CHANGE_SLIDER", "CHANGE_DOMAIN"} =>
           Len(channels.ids) = lastAction.lengthBefore

\* One of MaxChannels channels was removed.
C19_Witness ==
    /\ lastAction = [type |-> "REMOVE_CHANNEL", lengthBefore |-> MaxChannels]
    /\ \A f \in ChannelArrays : Len(channels[f]) = MaxChannels - 1

\* A channel was added to a state without channels.
C19_WitnessAdd ==
    /\ lastAction = [type |-> "ADD_CHANNEL", lengthBefore |-> 0]
    /\ channels.colors = <<(<<255, 255, 255>>)>>
    /\ channels.isOn = <<TRUE>>
    /\ \A f \in ChannelArrays : Len(channels[f]) = 1
====
